---------------------------- MODULE Spec2Model ----------------------------
(***************************************************************************)
(* Model of examples/kbrdhook.cpp: event_sender_range_factory, the bridge  *)
(* from a callback-driven event source to a sequence of senders.           *)
(*                                                                         *)
(* The slot is the pair of atomics pendingOperation_ / complete_with_event_.*)
(* A consumer publishes an operation state with start() (two               *)
(* compare-exchanges), a delivery thread takes it in event_function::      *)
(* operator() (two exchanges with a spin between them) and invokes the     *)
(* completion function it took.  Every atomic access is one step.          *)
(***************************************************************************)
EXTENDS Naturals, Sequences, FiniteSets

(* ------------------------------ bounds --------------------------------- *)
MaxOps == 2              \* operation states the consumers create
MaxCalls == 3            \* calls of the event callback
NumDeliveryThreads == 2  \* threads of the event source calling the callback
MaxStarts == 2           \* calls of event_sender_range_factory::start
MaxRanges == 2           \* sender_range objects ever constructed (copies included)

Ops == 1..MaxOps
DeliveryThreads == 1..NumDeliveryThreads
Events == {42, 7}
\* Receiver types the senders are connected with: complete_with_event is a
\* static member of event_operation_state<StopToken, Receiver>, so its address
\* is one per Receiver type, shared by all operation states of that type.
ReceiverTypes == {1, 2}
nullptr == 0

VARIABLES
  registerCalls,         \* times registerFn_ was invoked
  unregisterCalls,       \* times unregisterFn_ was invoked
  registration_,         \* storage_.registration_: "empty", "live", "destroyed"
  rangesMade,            \* sender_range objects constructed so far
  ranges,                \* sender_range objects alive
  pendingOperation_,     \* std::atomic<void*>: nullptr or an operation state
  complete_with_event_,  \* std::atomic<complete_function_t>: nullptr or the
                         \* complete_with_event of a Receiver type
  storedBy,              \* history: the operation whose start() stored the
                         \* value now in complete_with_event_
  opState,               \* per operation: "none", "created" (connect returned),
                         \* "between" (start() between its compare-exchanges),
                         \* "started" (start() returned)
  opType,                \* per operation: its Receiver type (0 before connect)
  dpc,                   \* per delivery thread: "idle", "take", "spin", "call"
  dcall,                 \* history: per delivery thread, the number of its call
  dev,                   \* per delivery thread: the argument event (0: none)
  dop,                   \* per delivery thread: local op
  dfn,                   \* per delivery thread: local complete_with_event
  dfnBy,                 \* history: storedBy of the value in dfn
  dwindow,               \* history: op was taken while its start() was between
                         \* its compare-exchanges
  nCalls,                \* history: calls of the callback so far; a call's
                         \* number is its place in the order of the calls
  callers,               \* history: delivery threads that called the callback
  dropped,               \* history: calls that found pendingOperation_ empty
  observed,              \* history: receiver invocations, in order
  terminated,            \* "no", "terminate" (std::terminate), "crash"
  terminatedBy,          \* the operation whose start() called std::terminate
  stopRequested,         \* request_stop() was called on the source of the token
                         \* given to the factory's start()
  stopPending,           \* history: pendingOperation_ when stop was requested
  hHook_                 \* kbdhookstate::hHook_: "NULL", "set", or "failed"
                         \* (SetWindowsHookExW returned NULL)

slotVars == <<pendingOperation_, complete_with_event_, storedBy>>
regVars == <<registerCalls, unregisterCalls, registration_, rangesMade, ranges>>
opVars == <<opState, opType>>
dVars == <<dpc, dcall, dev, dop, dfn, dfnBy, dwindow>>
histVars == <<nCalls, callers, dropped, observed>>
termVars == <<terminated, terminatedBy>>
envVars == <<stopRequested, stopPending, hHook_>>
vars == <<regVars, slotVars, opVars, dVars, histVars, termVars, envVars>>

Running == terminated = "no"

\* The receiver invocations of operation op / made by callback call c.
ObservedBy(op) == {i \in 1..Len(observed) : observed[i].op = op}
ObservedOf(c) == {i \in 1..Len(observed) : observed[i].call = c}
Completed(op) == ObservedBy(op) # {}

Init ==
  /\ registerCalls = 0
  /\ unregisterCalls = 0
  /\ registration_ = "empty"
  /\ rangesMade = 0
  /\ ranges = 0
  /\ pendingOperation_ = nullptr
  /\ complete_with_event_ = nullptr
  /\ storedBy = 0
  /\ opState = [o \in Ops |-> "none"]
  /\ opType = [o \in Ops |-> 0]
  /\ dpc = [d \in DeliveryThreads |-> "idle"]
  /\ dcall = [d \in DeliveryThreads |-> 0]
  /\ dev = [d \in DeliveryThreads |-> 0]
  /\ dop = [d \in DeliveryThreads |-> nullptr]
  /\ dfn = [d \in DeliveryThreads |-> nullptr]
  /\ dfnBy = [d \in DeliveryThreads |-> 0]
  /\ dwindow = [d \in DeliveryThreads |-> FALSE]
  /\ nCalls = 0
  /\ callers = {}
  /\ dropped = {}
  /\ observed = <<>>
  /\ terminated = "no"
  /\ terminatedBy = 0
  /\ stopRequested = FALSE
  /\ stopPending = 0
  /\ hHook_ = "NULL"

(* ------------------------ registration lifecycle ----------------------- *)

\* event_sender_range_factory::start: placement-new of the registration from
\* registerFn_(event_function_), whatever storage_ holds, and a sender_range.
FactoryStart ==
  /\ Running
  /\ UNCHANGED envVars
  /\ registerCalls < MaxStarts
  /\ rangesMade < MaxRanges
  /\ registerCalls' = registerCalls + 1
  /\ registration_' = "live"
  /\ rangesMade' = rangesMade + 1
  /\ ranges' = ranges + 1
  /\ UNCHANGED <<unregisterCalls, slotVars, opVars, dVars, histVars, termVars>>

\* The implicit copy constructor of sender_range (it declares a destructor only).
CopyRange ==
  /\ Running
  /\ UNCHANGED envVars
  /\ ranges > 0
  /\ rangesMade < MaxRanges
  /\ rangesMade' = rangesMade + 1
  /\ ranges' = ranges + 1
  /\ UNCHANGED <<registerCalls, unregisterCalls, registration_, slotVars, opVars,
                 dVars, histVars, termVars>>

\* ~sender_range: unregisterFn_(registration_), then registration_'s destructor.
\* On a registration that was destroyed already both act on a dead object:
\* the run goes on or crashes.  The destructor does not touch the slot.
DestroyRange ==
  /\ Running
  /\ UNCHANGED envVars
  /\ ranges > 0
  /\ ranges' = ranges - 1
  /\ unregisterCalls' = unregisterCalls + 1
  /\ registration_' = "destroyed"
  /\ IF registration_ = "live"
       THEN UNCHANGED terminated
       ELSE terminated' \in {"no", "crash"}
  /\ UNCHANGED <<registerCalls, rangesMade, slotVars, opVars, dVars, histVars,
                 terminatedBy>>

(* ------------------------------ operations ----------------------------- *)

\* Operation states are created in the order of their numbers.
NextOp(op) == \A o \in Ops : o < op => opState[o] # "none"

\* Receiver types are numbered in the order of their first use.
NextType(t) == \A u \in ReceiverTypes : u < t => \E o \in Ops : opType[o] = u

\* A connect that publishes the operation state it returns.
PendingAfterEagerConnect(cur, op) == op

\* What connect does to pendingOperation_: it only builds
\* {factory_, stopToken_, receiver}.
PendingAfterConnect(cur, op) == cur

\* Dereferencing the range gives an event_sender; event_sender::connect
\* returns an event_operation_state holding the receiver.  Neither touches
\* the slot.
Connect(op, t) ==
  /\ Running
  /\ UNCHANGED envVars
  /\ ranges > 0
  /\ opState[op] = "none"
  /\ NextOp(op)
  /\ NextType(t)
  /\ opState' = [opState EXCEPT ![op] = "created"]
  /\ opType' = [opType EXCEPT ![op] = t]
  /\ pendingOperation_' = PendingAfterConnect(pendingOperation_, op)
  /\ UNCHANGED <<regVars, complete_with_event_, storedBy, dVars, histVars, termVars>>

\* std::atomic::compare_exchange_strong: the value the atomic holds afterwards.
CompareExchangeStrong(cur, expected, desired) ==
  IF cur = expected THEN desired ELSE cur

\* A start() that publishes no completion function.
TrampolineNull(op) == nullptr

\* &complete_with_event of the operation's event_operation_state type.
TrampolineOf(op) == opType[op]

\* start(), first compare-exchange: pendingOperation_ from nullptr to this.
StartPending(op) ==
  /\ Running
  /\ UNCHANGED envVars
  /\ opState[op] = "created"
  /\ pendingOperation_' = CompareExchangeStrong(pendingOperation_, nullptr, op)
  /\ IF pendingOperation_ = nullptr
       THEN /\ opState' = [opState EXCEPT ![op] = "between"]
            /\ UNCHANGED termVars
       ELSE /\ terminated' = "terminate"
            /\ terminatedBy' = op
            /\ UNCHANGED opState
  /\ UNCHANGED <<regVars, complete_with_event_, storedBy, opType, dVars, histVars>>

\* start(), second compare-exchange: complete_with_event_ from nullptr to
\* &complete_with_event.
StartComplete(op) ==
  /\ Running
  /\ UNCHANGED envVars
  /\ opState[op] = "between"
  /\ complete_with_event_' =
       CompareExchangeStrong(complete_with_event_, nullptr, TrampolineOf(op))
  /\ IF complete_with_event_ = nullptr
       THEN /\ storedBy' = op
            /\ opState' = [opState EXCEPT ![op] = "started"]
            /\ UNCHANGED termVars
       ELSE /\ terminated' = "terminate"
            /\ terminatedBy' = op
            /\ UNCHANGED <<storedBy, opState>>
  /\ UNCHANGED <<regVars, pendingOperation_, opType, dVars, histVars>>

\* start() called again on an operation whose start() has returned: the
\* same first compare-exchange; start() keeps no record of an earlier call.
StartAgain(op) ==
  /\ Running
  /\ opState[op] = "started"
  /\ pendingOperation_' = CompareExchangeStrong(pendingOperation_, nullptr, op)
  /\ IF pendingOperation_ = nullptr
       THEN /\ opState' = [opState EXCEPT ![op] = "between"]
            /\ UNCHANGED termVars
       ELSE /\ terminated' = "terminate"
            /\ terminatedBy' = op
            /\ UNCHANGED opState
  /\ UNCHANGED <<regVars, complete_with_event_, storedBy, opType, dVars, histVars,
                 envVars>>

(* ------------------------------- delivery ------------------------------ *)

\* Delivery threads are numbered in the order of their first call.
NextThread(d) == \A u \in DeliveryThreads : u < d => u \in callers

\* The event source calls event_function::operator() with an event.  It knows
\* the callback from registerFn_ and calls it while the registration lives.
DeliverEnter(d, e) ==
  /\ Running
  /\ UNCHANGED envVars
  /\ registration_ = "live"
  /\ dpc[d] = "idle"
  /\ NextThread(d)
  /\ nCalls < MaxCalls
  /\ nCalls' = nCalls + 1
  /\ callers' = callers \cup {d}
  /\ dcall' = [dcall EXCEPT ![d] = nCalls + 1]
  /\ dev' = [dev EXCEPT ![d] = e]
  /\ dpc' = [dpc EXCEPT ![d] = "take"]
  /\ UNCHANGED <<regVars, slotVars, opVars, dop, dfn, dfnBy, dwindow, dropped,
                 observed, termVars>>

\* A load in place of the exchange: the pointer stays in the slot.
PendingAfterLoad(cur) == cur

\* pendingOperation_.exchange(nullptr): the value the atomic holds afterwards.
PendingAfterExchange(cur) == nullptr

\* The test left out: the callback goes on with whatever it took.
TakenAlways(op) == TRUE

\* if (op): the callback took an operation.
Taken(op) == op # nullptr

\* op = pendingOperation_.exchange(nullptr); if (op) ... else discard the event.
DeliverTake(d) ==
  /\ Running
  /\ UNCHANGED envVars
  /\ dpc[d] = "take"
  /\ pendingOperation_' = PendingAfterExchange(pendingOperation_)
  /\ IF Taken(pendingOperation_)
       THEN /\ dop' = [dop EXCEPT ![d] = pendingOperation_]
            /\ dpc' = [dpc EXCEPT ![d] = "spin"]
            /\ dwindow' = [dwindow EXCEPT ![d] =
                 pendingOperation_ # nullptr /\ opState[pendingOperation_] = "between"]
            /\ UNCHANGED <<dcall, dev, dropped>>
       ELSE /\ dpc' = [dpc EXCEPT ![d] = "idle"]
            /\ dcall' = [dcall EXCEPT ![d] = 0]
            /\ dev' = [dev EXCEPT ![d] = 0]
            /\ dropped' = dropped \cup {dcall[d]}
            /\ UNCHANGED <<dop, dwindow>>
  /\ UNCHANGED <<regVars, complete_with_event_, storedBy, opVars, dfn, dfnBy,
                 nCalls, callers, observed, termVars>>

\* A load in place of the exchange: the function stays in the slot.
CompleteAfterLoad(cur) == cur

\* complete_with_event_.exchange(nullptr): the value the atomic holds afterwards.
CompleteAfterExchange(cur) == nullptr

\* One turn of while (!complete_with_event): the exchange and the test.
DeliverSpin(d) ==
  /\ Running
  /\ UNCHANGED envVars
  /\ dpc[d] = "spin"
  /\ complete_with_event_' = CompleteAfterExchange(complete_with_event_)
  /\ storedBy' = IF complete_with_event_' = nullptr THEN 0 ELSE storedBy
  /\ IF complete_with_event_ # nullptr
       THEN /\ dfn' = [dfn EXCEPT ![d] = complete_with_event_]
            /\ dfnBy' = [dfnBy EXCEPT ![d] = storedBy]
            /\ dpc' = [dpc EXCEPT ![d] = "call"]
       ELSE UNCHANGED <<dfn, dfnBy, dpc>>
  /\ UNCHANGED <<regVars, pendingOperation_, opVars, dcall, dev, dop, dwindow,
                 histVars, termVars>>

\* set_value with an event that was moved from before.
complete_with_moved_event(op, c, event) == [op |-> op, call |-> c, value |-> 0]

\* event_operation_state::complete_with_event(selfVoid, event): set_value on
\* the receiver of *selfVoid with the event moved in.
complete_with_event(op, c, event) == [op |-> op, call |-> c, value |-> event]

\* A loop in place of the if: the callback takes again with the same event.
AfterCompleteTakeAgain == "take"

\* Where operator() goes after the completion function returned: it returns.
AfterComplete == "idle"

\* The call is undefined: the pointer is null, or the function is the
\* complete_with_event of another event_operation_state type.
UndefinedCall(d) == dop[d] = nullptr \/ dfn[d] # opType[dop[d]]

\* complete_with_event(op, event).  The function reinterprets op as an
\* operation state of its own Receiver type; for an operation state of another
\* type that is undefined: it crashes, or runs on that object's receiver.
DeliverCall(d) ==
  /\ Running
  /\ UNCHANGED envVars
  /\ dpc[d] = "call"
  /\ \/ /\ observed' = Append(observed,
             complete_with_event(dop[d], dcall[d], dev[d]))
        /\ dpc' = [dpc EXCEPT ![d] = AfterComplete]
        /\ dcall' = [dcall EXCEPT ![d] = IF AfterComplete = "idle" THEN 0 ELSE @]
        /\ dev' = [dev EXCEPT ![d] = IF AfterComplete = "idle" THEN 0 ELSE @]
        /\ dop' = [dop EXCEPT ![d] = nullptr]
        /\ dfn' = [dfn EXCEPT ![d] = nullptr]
        /\ dfnBy' = [dfnBy EXCEPT ![d] = 0]
        /\ dwindow' = [dwindow EXCEPT ![d] = FALSE]
        /\ UNCHANGED termVars
     \/ /\ UndefinedCall(d)
        /\ terminated' = "crash"
        /\ UNCHANGED <<observed, dVars, terminatedBy>>
  /\ UNCHANGED <<regVars, slotVars, opVars, nCalls, callers, dropped>>

(* ----------------------------- cancellation ---------------------------- *)

\* A stop request that empties the slot.
PendingAfterStopCleared(cur) == nullptr

\* What a stop request does to pendingOperation_: event_operation_state
\* stores stopToken_ and registers no stop callback, start() and the callback
\* never read the token.
PendingAfterStop(cur) == cur

\* request_stop() on the stop source whose token the factory's start() got.
RequestStop ==
  /\ Running
  /\ registerCalls > 0
  /\ ~stopRequested
  /\ stopRequested' = TRUE
  /\ stopPending' = pendingOperation_
  /\ pendingOperation_' = PendingAfterStop(pendingOperation_)
  /\ UNCHANGED <<regVars, complete_with_event_, storedBy, opVars, dVars, histVars,
                 termVars, hHook_>>

(* ---------------------------- keyboard hook ---------------------------- *)

\* The thread kbdhookstate's constructor starts (main's registerFn_ constructs
\* the kbdhookstate): SetWindowsHookExW sets the hook, or returns NULL and the
\* thread prints the error and calls std::terminate.
SetHook ==
  /\ Running
  /\ registerCalls > 0
  /\ hHook_ = "NULL"
  /\ \/ /\ hHook_' = "set"
        /\ UNCHANGED terminated
     \/ /\ hHook_' = "failed"
        /\ terminated' = "terminate"
  /\ UNCHANGED <<regVars, slotVars, opVars, dVars, histVars, terminatedBy,
                 stopRequested, stopPending>>

(* ---------------------------- specifications --------------------------- *)

\* Any use of the operations and the callback on a bridge that was started
\* once: any number of consumers starting operations at any time, any
\* interleaving of the atomic steps, teardown at any time.
Next ==
  \/ registerCalls = 0 /\ FactoryStart
  \/ DestroyRange
  \/ \E op \in Ops, t \in ReceiverTypes : Connect(op, t)
  \/ \E op \in Ops : StartPending(op)
  \/ \E op \in Ops : StartComplete(op)
  \/ \E d \in DeliveryThreads, e \in Events : DeliverEnter(d, e)
  \/ \E d \in DeliveryThreads : DeliverTake(d)
  \/ \E d \in DeliveryThreads : DeliverSpin(d)
  \/ \E d \in DeliveryThreads : DeliverCall(d)

Spec == Init /\ [][Next]_vars

\* The same with any sequence of factory start() calls and of sender_range
\* copies and destructions.
NextLifecycle ==
  \/ FactoryStart
  \/ CopyRange
  \/ DestroyRange
  \/ \E op \in Ops, t \in ReceiverTypes : Connect(op, t)
  \/ \E op \in Ops : StartPending(op)
  \/ \E op \in Ops : StartComplete(op)
  \/ \E d \in DeliveryThreads, e \in Events : DeliverEnter(d, e)
  \/ \E d \in DeliveryThreads : DeliverTake(d)
  \/ \E d \in DeliveryThreads : DeliverSpin(d)
  \/ \E d \in DeliveryThreads : DeliverCall(d)

SpecLifecycle == Init /\ [][NextLifecycle]_vars

\* A wait that returns without the completion.
SyncWaitNoWait(op) == TRUE

\* unifex::sync_wait(next) in main's loop returns once the receiver it
\* connected was completed.
SyncWaitReturned(op) == Completed(op)

\* The consumer of main is between two sync_wait calls.
LoopIdle == \A o \in Ops : opState[o] # "none" => SyncWaitReturned(o)

\* The use main makes of the bridge: one factory start(), one consumer that
\* takes the next sender and waits for it to complete before it goes on, and
\* the sender_range destroyed when the loop is left.  The range of main has no
\* end; the loop is left between two sync_wait calls (a break or an exception
\* in a consumer written like main).  The event source calls the callback
\* from any of its threads at any time.
NextMain ==
  \/ registerCalls = 0 /\ FactoryStart
  \/ LoopIdle /\ DestroyRange
  \/ \E op \in Ops, t \in ReceiverTypes : LoopIdle /\ Connect(op, t)
  \/ \E op \in Ops : StartPending(op)
  \/ \E op \in Ops : StartComplete(op)
  \/ \E d \in DeliveryThreads, e \in Events : DeliverEnter(d, e)
  \/ \E d \in DeliveryThreads : DeliverTake(d)
  \/ \E d \in DeliveryThreads : DeliverSpin(d)
  \/ \E d \in DeliveryThreads : DeliverCall(d)

SpecMain == Init /\ [][NextMain]_vars

\* The use main makes of the bridge, with a stop request at any time.
NextStop ==
  \/ registerCalls = 0 /\ FactoryStart
  \/ LoopIdle /\ DestroyRange
  \/ \E op \in Ops, t \in ReceiverTypes : LoopIdle /\ Connect(op, t)
  \/ \E op \in Ops : StartPending(op)
  \/ \E op \in Ops : StartComplete(op)
  \/ \E d \in DeliveryThreads, e \in Events : DeliverEnter(d, e)
  \/ \E d \in DeliveryThreads : DeliverTake(d)
  \/ \E d \in DeliveryThreads : DeliverSpin(d)
  \/ \E d \in DeliveryThreads : DeliverCall(d)
  \/ RequestStop

SpecStop == Init /\ [][NextStop]_vars

\* main with its event source: KbdHookProc calls the callback once the hook
\* is set.
NextHook ==
  \/ registerCalls = 0 /\ FactoryStart
  \/ SetHook
  \/ LoopIdle /\ DestroyRange
  \/ \E op \in Ops, t \in ReceiverTypes : LoopIdle /\ Connect(op, t)
  \/ \E op \in Ops : StartPending(op)
  \/ \E op \in Ops : StartComplete(op)
  \/ \E d \in DeliveryThreads, e \in Events : hHook_ = "set" /\ DeliverEnter(d, e)
  \/ \E d \in DeliveryThreads : DeliverTake(d)
  \/ \E d \in DeliveryThreads : DeliverSpin(d)
  \/ \E d \in DeliveryThreads : DeliverCall(d)

SpecHook == Init /\ [][NextHook]_vars

\* The use main makes of the bridge, with a consumer that may call start()
\* again on an operation it started before.
NextRestart ==
  \/ registerCalls = 0 /\ FactoryStart
  \/ LoopIdle /\ DestroyRange
  \/ \E op \in Ops, t \in ReceiverTypes : LoopIdle /\ Connect(op, t)
  \/ \E op \in Ops : StartPending(op)
  \/ \E op \in Ops : StartComplete(op)
  \/ \E op \in Ops : StartAgain(op)
  \/ \E d \in DeliveryThreads, e \in Events : DeliverEnter(d, e)
  \/ \E d \in DeliveryThreads : DeliverTake(d)
  \/ \E d \in DeliveryThreads : DeliverSpin(d)
  \/ \E d \in DeliveryThreads : DeliverCall(d)

SpecRestart == Init /\ [][NextRestart]_vars

\* The consumer thread inside start() and the delivery threads inside the
\* callback keep running.
SpecMainFair ==
  /\ SpecMain
  /\ \A op \in Ops : WF_vars(StartComplete(op))
  /\ \A d \in DeliveryThreads :
       WF_vars(DeliverSpin(d)) /\ WF_vars(DeliverCall(d))

(* -------------------------------- claims ------------------------------ *)

StartCalled(op) == opState[op] \in {"between", "started"}
InCallback(d) == dpc[d] \in {"spin", "call"}

\* C1 (SpecMain).  No duplicate delivery: the event of one call of the
\* callback is handed to at most one receiver, however the calls of the
\* delivery threads interleave with each other and with start().
NoDuplicateDelivery ==
  \A c \in 1..nCalls : Cardinality(ObservedOf(c)) <= 1

\* A call completed an operation while an earlier call was still in progress.
NoDuplicateDelivery_Witness ==
  \E c \in 1..nCalls, d \in DeliveryThreads :
    /\ ObservedOf(c) # {}
    /\ dpc[d] = "take"
    /\ dcall[d] < c

\* C2 (SpecMain).  Exactly-once completion: the receiver of a started
\* operation is invoked at most once; a completed operation is neither in the
\* slot nor held by a call of the callback; and when every started operation
\* is completed both fields of the slot are empty, so the next start() finds
\* them empty.
ExactlyOnceCompletion ==
  /\ \A op \in Ops : Cardinality(ObservedBy(op)) <= 1
  /\ \A op \in Ops : Completed(op) =>
       /\ pendingOperation_ # op
       /\ \A d \in DeliveryThreads : dop[d] # op
  /\ (\A op \in Ops : StartCalled(op) => Completed(op)) =>
       /\ pendingOperation_ = nullptr
       /\ complete_with_event_ = nullptr

\* The first operation was completed, a later call of the callback found
\* nothing, and the start() of the next operation returned.
ExactlyOnceCompletion_Witness ==
  /\ opState[2] = "started"
  /\ \E i \in ObservedBy(1) : \E c \in dropped : c > observed[i].call

\* C3 (SpecMain).  Drop-when-idle: a call of the callback that finds
\* pendingOperation_ empty returns at once, leaves both fields of the slot,
\* every operation and every receiver as they were and keeps nothing of the
\* event; no receiver is ever invoked with the event of a call that found the
\* slot empty.
DropWhenIdle ==
  /\ [](\A i \in 1..Len(observed) : observed[i].call \notin dropped)
  /\ [][\A d \in DeliveryThreads :
          (dpc[d] = "take" /\ dpc'[d] # "take" /\ pendingOperation_ = nullptr) =>
            /\ dpc'[d] = "idle"
            /\ dev'[d] = 0
            /\ dcall[d] \in dropped'
            /\ UNCHANGED <<slotVars, opVars, dop, dfn, observed, termVars>>]_vars

\* With one delivery thread: call 1 found the slot empty, the first operation
\* was started afterwards and call 2 completed it.
DropWhenIdle_Witness ==
  /\ callers = {1}
  /\ 1 \in dropped
  /\ Len(observed) = 1
  /\ observed[1].op = 1
  /\ observed[1].call = 2

\* C4 (Spec).  Single-consumer invariant: a start() called while another
\* operation is started and not yet completed is rejected, so the start() of
\* two operations never both return while neither is completed.
SingleConsumerRejected ==
  \A a, b \in Ops :
    (a # b /\ opState[a] = "started" /\ ~Completed(a)) =>
      ~(opState[b] = "started" /\ ~Completed(b))

\* C5 (SpecMain).  No stale trampoline: the completion function a call of the
\* callback took is the one stored by the start() of the operation the call
\* took, and it is the complete_with_event of that operation's type.
NoStaleTrampoline ==
  \A d \in DeliveryThreads :
    dpc[d] = "call" => dfnBy[d] = dop[d] /\ dfn[d] = TrampolineOf(dop[d])

\* A call took the operation between start()'s two compare-exchanges and
\* then took the completion function.
NoStaleTrampoline_Witness ==
  \E d \in DeliveryThreads : dpc[d] = "call" /\ dwindow[d]

\* C6 (SpecMainFair).  The spin ends: a call of the callback that took an
\* operation leaves while (!complete_with_event), invokes the function and
\* returns.
DeliverSpinTerminates ==
  \A d \in DeliveryThreads : (dpc[d] = "spin") ~> (dpc[d] = "idle")

\* A call spins on the empty complete_with_event_ of an operation whose
\* start() is between its compare-exchanges.
DeliverSpinTerminates_Witness ==
  \E d \in DeliveryThreads :
    /\ dpc[d] = "spin"
    /\ complete_with_event_ = nullptr
    /\ opState[dop[d]] = "between"

\* C7 (SpecMain).  Events reach the consumer unchanged and in order: the
\* receiver is invoked with the operation the call took and the event the
\* call was made with; with one delivery thread the calls whose events the
\* consumer observed are in the order of the calls.
EventsUnchangedInOrder ==
  /\ [][\A d \in DeliveryThreads :
          (dpc[d] = "call" /\ dpc'[d] # "call") =>
            observed' = Append(observed,
                          [op |-> dop[d], call |-> dcall[d], value |-> dev[d]])]_vars
  /\ [](callers \subseteq {1} =>
          \A i, j \in 1..Len(observed) :
            i < j => observed[i].call < observed[j].call)

\* start Op1, deliver(42), start Op2, deliver(7) from one thread: [42, 7].
EventsUnchangedInOrder_Witness ==
  /\ callers = {1}
  /\ Len(observed) = 2
  /\ observed[1].op = 1 /\ observed[1].value = 42
  /\ observed[2].op = 2 /\ observed[2].value = 7

\* C8 (SpecLifecycle).  Registration symmetry: registerFn_ is invoked at most
\* once, unregisterFn_ at most once and never more often than registerFn_.
RegistrationSymmetry ==
  /\ registerCalls <= 1
  /\ unregisterCalls <= 1
  /\ unregisterCalls <= registerCalls

\* C9 (Spec).  Abandoned operation at teardown: the destruction of the
\* sender_range leaves both fields of the slot empty.
TeardownEmptiesSlot ==
  [][unregisterCalls' # unregisterCalls =>
       pendingOperation_' = nullptr /\ complete_with_event_' = nullptr]_vars

CancellationNotConsulted ==
  /\ [][stopRequested' # stopRequested =>
          UNCHANGED <<pendingOperation_, complete_with_event_, opVars, observed,
                      termVars>>]_vars
  /\ [][\A op \in Ops :
          (stopRequested /\ pendingOperation_ = op /\ pendingOperation_' # op) =>
            \E d \in DeliveryThreads :
              dpc[d] = "take" /\ dpc'[d] = "spin" /\ dop'[d] = op]_vars
  /\ [][observed' # observed =>
          \E d \in DeliveryThreads :
            /\ dpc[d] = "call"
            /\ observed' = Append(observed,
                 [op |-> dop[d], call |-> dcall[d], value |-> dev[d]])]_vars

\* Stop was requested while operation 1 was in the slot; a later call of the
\* callback completed it.
CancellationNotConsulted_Witness ==
  /\ stopRequested
  /\ stopPending = 1
  /\ Completed(1)

\* C12 (SpecHook).  Registration failure: when the hook cannot be installed
\* the process is not terminated, and no operation was published into the
\* slot before the failure was observed.
RegistrationFailureReported ==
  hHook_ = "failed" =>
    /\ terminated = "no"
    /\ \A op \in Ops : ~StartCalled(op)

\* C13 (SpecMain).  Slot pairing: in every state in which no start() is
\* between its two compare-exchanges and no call of the callback is between
\* its two exchanges, pendingOperation_ is empty exactly when
\* complete_with_event_ is empty.
SlotPairing ==
  ((\A op \in Ops : opState[op] # "between") /\
   (\A d \in DeliveryThreads : dpc[d] # "spin")) =>
    (pendingOperation_ = nullptr <=> complete_with_event_ = nullptr)

\* Both fields are set: an operation is published and no call has taken it.
SlotPairing_Witness ==
  /\ \A op \in Ops : opState[op] # "between"
  /\ \A d \in DeliveryThreads : dpc[d] # "spin"
  /\ pendingOperation_ = 1
  /\ complete_with_event_ # nullptr
  /\ storedBy = 1

\* C14 (Spec).  Delivery concurrent with a second publish: while a call of
\* the callback holds operation A and has not yet taken a completion function,
\* the start() of another operation B never returns (it ends in
\* std::terminate), and a call never invokes an operation with the completion
\* function another operation's start() stored.
SecondPublishFailsLoudly ==
  /\ \A d \in DeliveryThreads, b \in Ops :
       ~(dpc[d] = "spin" /\ dop[d] # b /\ pendingOperation_ = b /\
         opState[b] = "started")
  /\ \A d \in DeliveryThreads : dpc[d] = "call" => dfnBy[d] = dop[d]

\* C15 (SpecRestart).  Double start is fatal: an operation whose start() has
\* returned and that is not in the slot is never put into the slot again.
DoubleStartFatal ==
  [][\A op \in Ops :
       (opState[op] = "started" /\ pendingOperation_ # op) =>
         pendingOperation_' # op]_vars

\* C16 (SpecMain).  Advancing the sequence does not publish: the step that
\* creates an operation state (dereference and connect) leaves both fields of
\* the slot unchanged and the operation in the created state; a field of the
\* slot changes only in a step of start() or of the callback.
AdvanceDoesNotPublish ==
  /\ [][\A op \in Ops :
          (opState[op] = "none" /\ opState'[op] # "none") =>
            /\ opState'[op] = "created"
            /\ UNCHANGED <<pendingOperation_, complete_with_event_>>]_vars
  /\ [][<<pendingOperation_, complete_with_event_>>' #
          <<pendingOperation_, complete_with_event_>> =>
            \/ \E op \in Ops : StartCalled(op)' /\ opState'[op] # opState[op]
            \/ \E d \in DeliveryThreads : dpc[d] \in {"take", "spin"}
                                          /\ dpc'[d] # dpc[d]]_vars

\* The second operation state was created while the slot was empty and stays
\* unpublished.
AdvanceDoesNotPublish_Witness ==
  /\ Completed(1)
  /\ opState[2] = "created"
  /\ pendingOperation_ = nullptr
  /\ complete_with_event_ = nullptr

\* C17 (SpecMain).  Completion runs on the delivery thread: the receiver of
\* a taken operation is invoked by the call of the callback that took it,
\* with both fields of the slot empty from the moment the call has taken the
\* completion function until the receiver has been invoked; and the start()
\* of the next operation, once the operations before it are completed, does
\* not end in std::terminate.
CompletionOnDeliveryThread ==
  /\ [](\A d \in DeliveryThreads :
          dpc[d] = "call" =>
            pendingOperation_ = nullptr /\ complete_with_event_ = nullptr)
  /\ [][\A d \in DeliveryThreads :
          (dpc[d] = "call" /\ dpc'[d] # "call") =>
            /\ Len(observed') = Len(observed) + 1
            /\ observed'[Len(observed')].op = dop[d]
            /\ observed'[Len(observed')].call = dcall[d]
            /\ pendingOperation_' = nullptr
            /\ complete_with_event_' = nullptr]_vars
  /\ [][\A op \in Ops :
          (opState[op] \in {"created", "between"} /\
           \A o \in Ops : o < op => Completed(o)) =>
            terminatedBy' # op]_vars

\* The consumer was resumed by the completion of operation 1 and published
\* operation 2.
CompletionOnDeliveryThread_Witness ==
  /\ Completed(1)
  /\ pendingOperation_ = 2
  /\ opState[2] = "started"
  /\ terminated = "no"

\* C18 (SpecMain).  No spurious termination: under correct use neither
\* std::terminate of start() is reached, nor any other abnormal end.
NoSpuriousTermination ==
  terminated = "no" /\ terminatedBy = 0

\* Operation 1 was completed, a call found the slot empty, and a call took
\* operation 2 between its two compare-exchanges and then its function.
NoSpuriousTermination_Witness ==
  /\ Completed(1)
  /\ dropped # {}
  /\ \E d \in DeliveryThreads : dpc[d] = "call" /\ dop[d] = 2 /\ dwindow[d]
  /\ opState[2] = "started"

=============================================================================
